---- MODULE Spec2Model ----
(***************************************************************************)
(* Model of the natural-language translation pipeline of rustshell:        *)
(* classifier, prompt builder, LLM client with its LRU response cache,     *)
(* the safety gate, and the two callers (interactive loop, command mode).  *)
(*                                                                         *)
(* Text is modelled as sequences of one-character strings, so that         *)
(* to_lowercase, trim, contains, starts_with and split_whitespace are      *)
(* computed and not assumed.                                               *)
(***************************************************************************)
EXTENDS Integers, Sequences, FiniteSets, TLC

(* ----------------------------- text ----------------------------------- *)

UpperChars ==
    <<"A","B","C","D","E","F","G","H","I","J","K","L","M",
      "N","O","P","Q","R","S","T","U","V","W","X","Y","Z">>

LowerChars ==
    <<"a","b","c","d","e","f","g","h","i","j","k","l","m",
      "n","o","p","q","r","s","t","u","v","w","x","y","z">>

Whitespace == {" ", "\n", "\t"}

to_lowercase_char(c) ==
    IF \E i \in DOMAIN UpperChars : UpperChars[i] = c
    THEN LowerChars[CHOOSE i \in DOMAIN UpperChars : UpperChars[i] = c]
    ELSE c

(* The text is bound once, as a value, and mapped character by character *)
to_lowercase(s) ==
    CHOOSE lower \in {[i \in 1..Len(t) |-> to_lowercase_char(t[i])] : t \in {s}} : TRUE

starts_with(s, p) == Len(p) <= Len(s) /\ SubSeq(s, 1, Len(p)) = p

ends_with(s, p) ==
    Len(p) <= Len(s) /\ SubSeq(s, Len(s) - Len(p) + 1, Len(s)) = p

contains(s, p) ==
    \E t \in {s} : \E i \in 0..(Len(t) - Len(p)) : SubSeq(t, i + 1, i + Len(p)) = p

SetMin(S) == CHOOSE x \in S : \A y \in S : x <= y

SetMax(S) == CHOOSE x \in S : \A y \in S : x >= y

trim(s) ==
    LET keep == {i \in 1..Len(s) : s[i] \notin Whitespace}
    IN  IF keep = {} THEN <<>> ELSE SubSeq(s, SetMin(keep), SetMax(keep))

(* The maximal runs of non-white-space characters, in order *)
word_starts(s) ==
    {i \in 1..Len(s) : s[i] \notin Whitespace /\ (i = 1 \/ s[i - 1] \in Whitespace)}

word_end(s, i) ==
    CHOOSE j \in i..Len(s) :
        /\ \A k \in i..j : s[k] \notin Whitespace
        /\ j = Len(s) \/ s[j + 1] \in Whitespace

split_whitespace(s) ==
    CHOOSE words \in
        { [k \in 1..Cardinality(starts) |->
              LET i == CHOOSE x \in starts : Cardinality({y \in starts : y < x}) = k - 1
              IN  SubSeq(s, i, word_end(s, i))]
          : starts \in {word_starts(s)} } : TRUE

None == [some |-> FALSE]

Some(x) == [some |-> TRUE, v |-> x]

Ok(x) == [ok |-> TRUE, v |-> x]

Err(e) == [ok |-> FALSE, e |-> e]

(* ------------------------- classifier --------------------------------- *)

natural_language_indicators ==
    << <<"c","r","e","a","t","e">>,
       <<"m","a","k","e">>,
       <<"d","e","l","e","t","e">>,
       <<"r","e","m","o","v","e">>,
       <<"c","o","p","y">>,
       <<"m","o","v","e">>,
       <<"s","h","o","w">>,
       <<"d","i","s","p","l","a","y">>,
       <<"l","i","s","t">>,
       <<"f","i","n","d">>,
       <<"s","e","a","r","c","h">>,
       <<"n","a","v","i","g","a","t","e">>,
       <<"g","o"," ","t","o">>,
       <<"c","h","a","n","g","e"," ","t","o">>,
       <<"s","w","i","t","c","h"," ","t","o">>,
       <<"h","o","w"," ","t","o">>,
       <<"c","a","n"," ","y","o","u">>,
       <<"p","l","e","a","s","e">>,
       <<"i"," ","w","a","n","t">>,
       <<"i"," ","n","e","e","d">>,
       <<"h","e","l","p"," ","m","e">> >>

sentence_patterns ==
    << <<" ","a"," ">>,
       <<" ","a","n"," ">>,
       <<" ","t","h","e"," ">>,
       <<" ","t","o"," ">>,
       <<" ","a","n","d"," ">>,
       <<" ","o","r"," ">> >>

(* A classifier whose second tier starts at three words *)
is_natural_language_from_three_words(input) ==
    \/ \E i \in DOMAIN natural_language_indicators :
          contains(to_lowercase(input), natural_language_indicators[i])
    \/ /\ Len(split_whitespace(input)) >= 3
       /\ \E i \in DOMAIN sentence_patterns :
             contains(to_lowercase(input), sentence_patterns[i])

is_natural_language(input) ==
    LET input_lower == to_lowercase(input)
        words       == split_whitespace(input)
    IN  \/ \E i \in DOMAIN natural_language_indicators :
              contains(input_lower, natural_language_indicators[i])
        \/ /\ Len(words) > 3
           /\ \E i \in DOMAIN sentence_patterns :
                 contains(input_lower, sentence_patterns[i])

(* ------------------------- safety gate -------------------------------- *)

default_require_confirmation ==
    << <<"r","m">>,
       <<"d","e","l","e","t","e">>,
       <<"f","o","r","m","a","t">>,
       <<"s","u","d","o">>,
       <<"r","m","d","i","r">> >>

default_dangerous_patterns ==
    << <<"r","m"," ","-","r","f"," ","/">>,
       <<"f","o","r","m","a","t"," ","c",":">>,
       <<"s","u","d","o"," ","r","m">>,
       <<"d","e","l"," ","/","s">> >>

(* A pattern match that compares without folding the case *)
is_dangerous_command_case_sensitive(config, command) ==
    \E i \in DOMAIN config.dangerous_patterns :
       contains(command, config.dangerous_patterns[i])

is_dangerous_command(config, command) ==
    LET command_lower == to_lowercase(command)
    IN  \E i \in DOMAIN config.dangerous_patterns :
           contains(command_lower, to_lowercase(config.dangerous_patterns[i]))

(* A confirmation policy that does not read the confirm_destructive switch *)
requires_confirmation_ignores_switch(config, command) ==
    \E i \in DOMAIN config.require_confirmation :
       starts_with(to_lowercase(command), to_lowercase(config.require_confirmation[i]))

requires_confirmation(config, command) ==
    IF ~config.confirm_destructive THEN FALSE
    ELSE LET command_lower == to_lowercase(command)
         IN  \E i \in DOMAIN config.require_confirmation :
                starts_with(command_lower,
                            to_lowercase(config.require_confirmation[i]))

(* --------------------- inputs of the model ---------------------------- *)

LineCreate == <<"c","r","e","a","t","e"," ","a"," ","d","i","r","e","c","t","o","r","y"," ","c","a","l","l","e","d"," ","t","e","s","t">>

LineLs == <<"l","s"," ","-","l","a">>

LineQuoted == <<"'","R","e","m","o","v","e"," ","x","'">>

LineExit == <<"e","x","i","t">>

CmdMkdir == <<"m","k","d","i","r"," ","t","e","s","t">>

CmdRm == <<"r","m"," ","f","i","l","e",".","t","x","t">>

CmdSudoRm == <<"S","u","d","o"," ","r","m"," ","-","r","f"," ","/","h","o","m","e">>

CmdDel == <<"d","e","l"," ","/","s"," ","t","m","p">>

AnsY == <<"y","\n">>

AnsYes == <<" ","Y","e","s","\n">>

AnsN == <<"n","\n">>

AnsEmpty == <<"\n">>

StrOpenai == <<"o","p","e","n","a","i">>

StrAnthropic == <<"a","n","t","h","r","o","p","i","c">>

StrLocalEp == <<"l","o","c","a","l",":","e","p">>

StrCustomEp == <<"c","u","s","t","o","m",":","e","p">>

StrBogus == <<"b","o","g","u","s">>

PrefixLocal == <<"l","o","c","a","l",":">>

PrefixCustom == <<"c","u","s","t","o","m",":">>

PrefixSk == <<"s","k","-">>

PrefixAnthropicKey == <<"a","n","t","h","r","o","p","i","c","-">>

StrLiteralKey == <<"s","k","-","k","1">>

StrOpenaiKeyVar == <<"O","P","E","N","A","I","_","A","P","I","_","K","E","Y">>

StrAnthropicKeyVar == <<"A","N","T","H","R","O","P","I","C","_","A","P","I","_","K","E","Y">>

StrEnvKey == <<"k","2">>

StrGpt == <<"g","p","t","-","3",".","5","-","t","u","r","b","o">>

StrClaudeModel == <<"c","l","a","u","d","e","-","3">>

GateRmRoot == <<"r","m"," ","-","r","f"," ","/">>

GateSudoRm == <<"s","u","d","o"," ","r","m"," ","-","r","f"," ","/","h","o","m","e">>

GateLs == <<"l","s"," ","-","l","a">>

GateMkdir == <<"m","k","d","i","r"," ","t","e","s","t">>

GateRmFile == <<"r","m"," ","f","i","l","e",".","t","x","t">>

GateDelete == <<"d","e","l","e","t","e"," ","d","i","r","e","c","t","o","r","y">>

GateUpperRm == <<"S","U","D","O"," ","R","M"," ","x">>

GateUpperDelete == <<"D","e","l","e","t","e"," ","X">>

GateEchoRm == <<"e","c","h","o"," ","r","m"," ","-","r","f"," ","/">>

PatternUpper == <<"R","M"," ","-","R","F">>

ConfirmUpper == <<"M","k">>

WordLs == <<"l","s">>

WordA == <<"a">>

WordThe == <<"T","h","e">>

WordCreate == <<"C","r","e","a","t","e">>

WordX == <<"x">>

TextEmpty == <<>>

TextCd == <<"c","d"," ","/","h","o","m","e">>

TextCreateNew == <<"c","r","e","a","t","e"," ","a"," ","n","e","w"," ","d","i","r","e","c","t","o","r","y">>

TextPlease == <<"p","l","e","a","s","e"," ","s","h","o","w"," ","m","e"," ","t","h","e"," ","f","i","l","e","s">>

TextIWant == <<"I"," ","w","a","n","t"," ","t","o"," ","c","o","p","y"," ","t","h","i","s"," ","f","i","l","e">>

TextHowTo == <<"h","o","w"," ","t","o"," ","d","e","l","e","t","e"," ","a"," ","d","i","r","e","c","t","o","r","y">>

TextCpTo == <<"c","p"," ","x"," ","t","o"," ","y">>

TextAnd == <<"x"," ","a","n","d"," ","y"," ","z">>

TextOr == <<"x"," ","o","r"," ","y"," ","z">>

TextAn == <<"x"," ","a","n"," ","y"," ","z">>

TextTabs == <<"l","s","\t","t","h","e","\t","x","\t","y">>

TextTwoSpaces == <<"l","s"," "," ","t","h","e"," "," ","x">>

TextThreeThe == <<"l","s"," ","t","h","e"," ","x">>

LineBlank == <<" ">>

(* Lines a user can type in one turn (main.rs:1329) *)
Lines == {LineCreate, LineLs, LineQuoted, LineExit, LineBlank}

(* Argument vectors of command mode (main.rs:1424) *)
ArgVectors == {split_whitespace(l) : l \in {LineCreate, LineLs, LineQuoted}}

(* Texts a provider can put in its choice/content list *)
Commands == {CmdMkdir, CmdRm, CmdSudoRm, CmdDel}

(* Replies a user can give to the confirmation prompt *)
Answers == {AnsY, AnsYes, AnsN, AnsEmpty}

(* What the HTTP exchange with the provider can produce *)
ProviderOutcomes ==
    {[kind |-> "network_error"], [kind |-> "http_401"], [kind |-> "invalid_json"]}
    \cup {[kind |-> "ok", texts |-> <<c>>] : c \in Commands}
    \cup {[kind |-> "ok", texts |-> <<>>]}

(* ------------------------- configuration ------------------------------ *)

EnvNames == {StrOpenaiKeyVar, StrAnthropicKeyVar}

EmptyEnv == [n \in EnvNames |-> None]

AnthropicEnv == [EmptyEnv EXCEPT ![StrAnthropicKeyVar] = Some(StrEnvKey)]

(* OPENAI_API_KEY is set, to the empty string *)
EmptyKeyEnv == [EmptyEnv EXCEPT ![StrOpenaiKeyVar] = Some(<<>>)]

env_var(env, name) == IF name \in DOMAIN env THEN env[name] ELSE None

(* An endpoint override of the configuration file (llm.endpoint) *)
OverrideEndpoint == "https://proxy.example/v1/messages"

(* provider, api_key_env, endpoint override and process environment of a session *)
LLMSetups ==
    { [provider |-> StrOpenai,    api_key_env |-> Some(StrLiteralKey),      env |-> EmptyEnv,     endpoint |-> None],
      [provider |-> StrAnthropic, api_key_env |-> None,                     env |-> AnthropicEnv, endpoint |-> None],
      [provider |-> StrAnthropic, api_key_env |-> None,                     env |-> AnthropicEnv,
       endpoint |-> Some(OverrideEndpoint)],
      [provider |-> StrOpenai,    api_key_env |-> Some(StrOpenaiKeyVar),    env |-> EmptyEnv,     endpoint |-> None],
      [provider |-> StrOpenai,    api_key_env |-> None,                     env |-> EmptyKeyEnv,  endpoint |-> None],
      [provider |-> StrLocalEp,   api_key_env |-> None,                     env |-> EmptyEnv,     endpoint |-> None],
      [provider |-> StrCustomEp,  api_key_env |-> Some(StrLiteralKey),      env |-> AnthropicEnv, endpoint |-> None],
      [provider |-> StrBogus,     api_key_env |-> Some(StrLiteralKey),      env |-> EmptyEnv,     endpoint |-> None] }

DefaultMaxTokens == 150

DefaultTemperatureMilli == 100

(* RustShellConfig: the defaults of config/mod.rs:51-95 with the feature,  *)
(* safety and ui switches and the llm setup left free                      *)
Configs ==
    { [ enable_llm              |-> f[1],
        offline_mode            |-> f[2],
        fallback_to_traditional |-> f[3],
        block_destructive       |-> f[4],
        confirm_destructive     |-> f[5],
        verbose_mode            |-> f[6],
        provider                |-> s.provider,
        api_key_env             |-> s.api_key_env,
        env                     |-> s.env,
        model                   |-> StrGpt,
        endpoint                |-> s.endpoint,
        enable_cache            |-> TRUE,
        max_tokens              |-> DefaultMaxTokens,
        temperature             |-> DefaultTemperatureMilli,
        require_confirmation    |-> default_require_confirmation,
        dangerous_patterns      |-> default_dangerous_patterns ]
      : f \in [1..6 -> BOOLEAN], s \in LLMSetups }

to_llm_config(config) ==
    LET p == config.provider
        provider ==
            IF p = StrOpenai THEN [kind |-> "OpenAI"]
            ELSE IF p = StrAnthropic THEN [kind |-> "Anthropic"]
            ELSE IF starts_with(p, PrefixLocal)
                 THEN [kind |-> "Local", endpoint |-> SubSeq(p, Len(PrefixLocal) + 1, Len(p))]
            ELSE IF starts_with(p, PrefixCustom)
                 THEN [kind |-> "Custom", endpoint |-> SubSeq(p, Len(PrefixCustom) + 1, Len(p))]
            ELSE [kind |-> "Unknown"]
        api_key ==
            IF config.api_key_env.some
            THEN LET env_name == config.api_key_env.v
                 IN  IF starts_with(env_name, PrefixSk) \/ starts_with(env_name, PrefixAnthropicKey)
                     THEN Some(env_name)
                     ELSE env_var(config.env, env_name)
            ELSE IF provider.kind = "OpenAI" THEN env_var(config.env, StrOpenaiKeyVar)
            ELSE IF provider.kind = "Anthropic" THEN env_var(config.env, StrAnthropicKeyVar)
            ELSE None
    IN  IF provider.kind = "Unknown" THEN Err("Unknown LLM provider")
        ELSE Ok([ provider    |-> provider,
                  model       |-> config.model,
                  api_key     |-> api_key,
                  endpoint    |-> config.endpoint,
                  max_tokens  |-> config.max_tokens,
                  temperature |-> config.temperature ])

(* ------------------------- provider adapters -------------------------- *)

OpenAIProvider_new(api_key, model) ==
    [ kind |-> "OpenAI", api_key |-> api_key, model |-> model,
      endpoint |-> "https://api.openai.com/v1/chat/completions" ]

AnthropicProvider_new(api_key, model) ==
    [ kind |-> "Anthropic", api_key |-> api_key, model |-> model,
      endpoint |-> "https://api.anthropic.com/v1/messages" ]

(* openai.rs:62-73, anthropic.rs:63-74 *)
OpenAIProvider_with_endpoint(api_key, model, endpoint) ==
    [ kind |-> "OpenAI", api_key |-> api_key, model |-> model, endpoint |-> endpoint ]

AnthropicProvider_with_endpoint(api_key, model, endpoint) ==
    [ kind |-> "Anthropic", api_key |-> api_key, model |-> model, endpoint |-> endpoint ]

(* openai.rs:137-139, anthropic.rs:145-147 *)
OpenAIProvider_is_available(provider) == provider.api_key # <<>>

AnthropicProvider_is_available(provider) == provider.api_key # <<>>

RECURSIVE join(_, _)
join(parts, sep) ==
    IF parts = <<>> THEN <<>>
    ELSE IF Len(parts) = 1 THEN parts[1]
    ELSE parts[1] \o sep \o join(Tail(parts), sep)

LLMResponse(content) == [content |-> content, finish_reason |-> "stop"]

OpenAIProvider_generate(outcome) ==
    IF outcome.kind # "ok" THEN Err(outcome.kind)
    ELSE IF outcome.texts = <<>> THEN Err("No choices returned from OpenAI API")
    ELSE Ok(LLMResponse(trim(outcome.texts[1])))

AnthropicProvider_generate(outcome) ==
    IF outcome.kind # "ok" THEN Err(outcome.kind)
    ELSE Ok(LLMResponse(trim(join(outcome.texts, <<" ">>))))

LLMProviderEnum_generate(provider, outcome) ==
    IF provider.kind = "OpenAI" THEN OpenAIProvider_generate(outcome)
    ELSE AnthropicProvider_generate(outcome)

LLMProviderEnum_is_available(provider) ==
    IF provider.kind = "OpenAI" THEN OpenAIProvider_is_available(provider)
    ELSE AnthropicProvider_is_available(provider)

(* ------------------------- client and cache --------------------------- *)

(* A construction that sends a Local or Custom identity to the OpenAI adapter *)
LLMClient_new_endpoint_as_openai(config, env) ==
    IF config.provider.kind = "Anthropic"
    THEN LET api_key == IF config.api_key.some THEN config.api_key
                        ELSE env_var(env, StrAnthropicKeyVar)
         IN  IF ~api_key.some THEN Err("Anthropic API key not found")
             ELSE Ok([provider |-> AnthropicProvider_new(api_key.v, config.model),
                      config   |-> config])
    ELSE LET api_key == IF config.api_key.some THEN config.api_key
                        ELSE env_var(env, StrOpenaiKeyVar)
         IN  IF ~api_key.some THEN Err("OpenAI API key not found")
             ELSE Ok([provider |-> OpenAIProvider_new(api_key.v, config.model),
                      config   |-> config])

LLMClient_new(config, env) ==
    IF config.provider.kind = "OpenAI"
    THEN LET api_key == IF config.api_key.some THEN config.api_key
                        ELSE env_var(env, StrOpenaiKeyVar)
         IN  IF ~api_key.some THEN Err("OpenAI API key not found")
             ELSE Ok([provider |-> OpenAIProvider_new(api_key.v, config.model),
                      config   |-> config])
    ELSE IF config.provider.kind = "Anthropic"
    THEN LET api_key == IF config.api_key.some THEN config.api_key
                        ELSE env_var(env, StrAnthropicKeyVar)
         IN  IF ~api_key.some THEN Err("Anthropic API key not found")
             ELSE Ok([provider |-> AnthropicProvider_new(api_key.v, config.model),
                      config   |-> config])
    ELSE IF config.provider.kind = "Local" THEN Err("Local provider not yet implemented")
    ELSE Err("Custom provider not yet implemented")

(* client.rs:110-112 *)
LLMClient_is_available(c) == LLMProviderEnum_is_available(c.provider)

(* Capacity of the response cache. The program's cache holds 100 entries   *)
(* (client.rs:77); the model runs the same cache with a small capacity.    *)
CacheCapacity == 2

(* Temperatures are fixed-point, in thousandths: 100 is 0.1.               *)
(* (temperature * 100.0) as u32 truncates toward zero.                     *)
temperature_as_u32(temperature) == (temperature * 100) \div 1000

(* The items written to the hasher, in order. DefaultHasher is taken to    *)
(* be injective on this stream. A String is written with a terminator, so  *)
(* the stream determines each item.                                        *)
calculate_cache_key(model, request) ==
    << request.prompt, request.max_tokens, temperature_as_u32(request.temperature) >>
    \o (IF request.context.some THEN << request.context.v >> ELSE << >>)
    \o << model >>

(* LruCache: entries most-recently-used first *)
lru_index(entries, key) ==
    IF \E i \in DOMAIN entries : entries[i].key = key
    THEN CHOOSE i \in DOMAIN entries : entries[i].key = key
    ELSE 0

lru_without(entries, i) == SubSeq(entries, 1, i - 1) \o SubSeq(entries, i + 1, Len(entries))

(* LruCache::get: the value, if any *)
lru_get(entries, key) ==
    LET i == lru_index(entries, key)
    IN  IF i = 0 THEN None ELSE Some(entries[i].value)

(* A lookup that leaves the recency order alone (peek instead of get) *)
lru_peek(entries, key) == entries

(* LruCache::get: the entry that is hit becomes the most recently used *)
lru_get_promote(entries, key) ==
    LET i == lru_index(entries, key)
    IN  IF i = 0 THEN entries ELSE << entries[i] >> \o lru_without(entries, i)

(* A put that never evicts *)
lru_put_unbounded(entries, key, value) ==
    LET i == lru_index(entries, key)
        e == [key |-> key, value |-> value]
    IN  IF i # 0 THEN << e >> \o lru_without(entries, i)
        ELSE << e >> \o entries

(* A put that refuses the new entry when the cache is full *)
lru_put_full_drops_new(entries, key, value) ==
    LET i == lru_index(entries, key)
        e == [key |-> key, value |-> value]
    IN  IF i # 0 THEN << e >> \o lru_without(entries, i)
        ELSE IF Len(entries) >= CacheCapacity THEN entries
        ELSE << e >> \o entries

(* A put that keeps the value already stored under the key *)
lru_put_keeps_old(entries, key, value) ==
    LET i == lru_index(entries, key)
        e == [key |-> key, value |-> value]
    IN  IF i # 0 THEN << entries[i] >> \o lru_without(entries, i)
        ELSE IF Len(entries) >= CacheCapacity
             THEN << e >> \o SubSeq(entries, 1, CacheCapacity - 1)
        ELSE << e >> \o entries

(* LruCache::put: replace and promote, or insert, evicting the least       *)
(* recently used entry of a full cache                                     *)
lru_put(entries, key, value) ==
    LET i == lru_index(entries, key)
        e == [key |-> key, value |-> value]
    IN  IF i # 0 THEN << e >> \o lru_without(entries, i)
        ELSE IF Len(entries) >= CacheCapacity
             THEN << e >> \o SubSeq(entries, 1, CacheCapacity - 1)
        ELSE << e >> \o entries

(* ------------------------- prompt builder ----------------------------- *)

detect_os == "linux"

(* A label lookup that takes every unknown id for linux *)
os_context_defaults_to_linux(os) ==
    IF os = "windows" THEN "Windows PowerShell/Command Prompt"
    ELSE IF os = "macos" THEN "macOS bash/zsh shell"
    ELSE "Linux bash/sh shell"

os_context(os) ==
    IF os = "windows" THEN "Windows PowerShell/Command Prompt"
    ELSE IF os = "linux" THEN "Linux bash/sh shell"
    ELSE IF os = "macos" THEN "macOS bash/zsh shell"
    ELSE "Unknown OS"

(* prompts.rs:19-25: the five safety rules, each text standing for itself *)
safety_rules ==
    << <<"Never suggest commands that could harm the system">>,
       <<"Always use safe file operations">>,
       <<"Warn about destructive operations">>,
       <<"Prefer native cross-platform commands when possible">>,
       <<"Only return the command, no explanations">> >>

build_prompt(user_input, os) ==
    << [section |-> "system_prompt",  text |-> "default_system_prompt"],
       [section |-> "Target OS",      text |-> os_context(os)],
       [section |-> "User Request",   text |-> user_input],
       [section |-> "Safety Rules",   text |-> join(safety_rules, <<"\n- ">>)],
       [section |-> "Output Format",  text |-> "default_output_format"],
       [section |-> "directive",      text |-> "Provide only the command:"] >>

Quotes == {"\"", "'"}

clean_input(input) ==
    IF \E q \in Quotes : starts_with(input, <<q>>) /\ ends_with(input, <<q>>)
    THEN SubSeq(input, 2, Len(input) - 1)
    ELSE input

(* main.rs:923-1169: the arms of parse_command: the names an arm matches,   *)
(* the least argument count it accepts and whether a command comes out     *)
parse_command_arms ==
    {
      [names |-> {<<"s","h","o","w","a","l","l">>}, min |-> 1, yields |-> FALSE, command |-> "ShowAll"],
      [names |-> {<<"m","a","k","e","_","d","i","r">>, <<"m","k","d","i","r">>}, min |-> 2, yields |-> TRUE, command |-> "MakeDir"],
      [names |-> {<<"c","r","e","a","t","e","_","f","i","l","e">>, <<"t","o","u","c","h">>}, min |-> 2, yields |-> TRUE, command |-> "CreateFile"],
      [names |-> {<<"c","o","p","y">>}, min |-> 3, yields |-> TRUE, command |-> "CopyFile"],
      [names |-> {<<"m","o","v","e">>}, min |-> 3, yields |-> TRUE, command |-> "MoveFile"],
      [names |-> {<<"d","e","l","e","t","e","_","f","i","l","e">>, <<"r","m">>}, min |-> 2, yields |-> TRUE, command |-> "DeleteFile"],
      [names |-> {<<"d","e","l","e","t","e","_","d","i","r">>, <<"r","m","d","i","r">>}, min |-> 2, yields |-> TRUE, command |-> "DeleteDir"],
      [names |-> {<<"c","h","a","n","g","e","_","d","i","r">>, <<"c","d">>}, min |-> 2, yields |-> TRUE, command |-> "ChangeDir"],
      [names |-> {<<"l","i","s","t">>, <<"l","s">>}, min |-> 1, yields |-> TRUE, command |-> "ListDir"],
      [names |-> {<<"w","h","e","r","e","_","a","m","_","i">>, <<"p","w","d">>}, min |-> 1, yields |-> TRUE, command |-> "CurrentPath"],
      [names |-> {<<"r","u","n">>, <<"e","x","e","c">>}, min |-> 2, yields |-> TRUE, command |-> "ExecuteCommand"],
      [names |-> {<<"s","h","o","w">>, <<"c","a","t">>}, min |-> 2, yields |-> TRUE, command |-> "ShowFile"],
      [names |-> {<<"f","i","n","d">>}, min |-> 2, yields |-> TRUE, command |-> "FindFiles"],
      [names |-> {<<"c","o","m","p","r","e","s","s">>, <<"z","i","p">>}, min |-> 3, yields |-> TRUE, command |-> "Compress"],
      [names |-> {<<"u","n","a","l","i","a","s">>}, min |-> 2, yields |-> TRUE, command |-> "UnaliasCommand"],
      [names |-> {<<"p","i","p","e">>}, min |-> 3, yields |-> TRUE, command |-> "PipeCommand"],
      [names |-> {<<"h","e","l","p">>}, min |-> 1, yields |-> FALSE, command |-> "Help"]
    }

WordAlias == <<"a","l","i","a","s">>

(* main.rs:908-1181: the command object parse_command builds, if any; a     *)
(* session without aliases, so expand_aliases leaves the arguments alone   *)
parse_command(args) ==
    IF args = <<>> THEN None
    ELSE IF args[1] = WordAlias
    THEN IF Len(args) = 1 \/ Len(args) >= 3
         THEN Some([command |-> "AliasCommand", args |-> args])
         ELSE None
    ELSE LET arm == {a \in parse_command_arms : args[1] \in a.names}
         IN  IF arm = {}
             THEN Some([command |-> "ExecuteCommand", args |-> args])
             ELSE LET a == CHOOSE x \in arm : TRUE
                  IN  IF a.yields /\ Len(args) >= a.min
                      THEN Some([command |-> a.command, args |-> args])
                      ELSE None

(* ------------------------------ state --------------------------------- *)

VARIABLES
    cfg,            \* app_config, loaded once per process
    mode,           \* "interactive" (run_interactive_mode) or "command" (main)
    pc,             \* position of the caller / of process_natural_language
    line,           \* the input line of the turn
    command_args,   \* command mode: the argument vector the line was joined from
    llm_config,     \* process_natural_language: Ok(llm_config)
    client,         \* process_natural_language: the LLMClient of this call
    cache,          \* LLMClient.cache, most recently used first
    request,        \* the LLMRequest of the turn
    gen_result,     \* what client.generate returned
    result,         \* what process_natural_language returned
    processed,      \* processed_line / processed_command
    answer,         \* the reply to the confirmation prompt
    executed,       \* the argument vector handed to parse_command
    parsed,         \* the command parse_command built and execute ran, if any
    steps,          \* what the turn did, in order (steps, prints and logs)
    failure,        \* why process_natural_language returned None
    translated_ok,  \* lines that an earlier turn of the session translated
    cpc,            \* per caller of generate on a shared client: its position
    creq,           \* per caller: the request of its generate call
    cresp,          \* per caller: the response its provider call returned
    ccalls,         \* per caller: provider calls made so far by its generate call
    last_op,        \* the last operation done under the cache lock, and what it saw
    touch,          \* keys by last hit or put since the last clear, latest first
    origins,        \* per cached key, the request whose response was stored, last put first
    lock,           \* the caller of generate that holds the cache Mutex, if any
    key_in,         \* fingerprint check: a model and two requests
    key_out,        \* fingerprint check: their two cache keys
    gate_in,        \* safety gate check: a configuration and a command
    gate_out,       \* safety gate check: what the two predicates answered
    text_in,        \* classifier / prompt builder check: the arguments
    text_out        \* classifier / prompt builder check: the value returned

turn_vars ==
    << pc, line, command_args, llm_config, client, cache, request, gen_result,
       result, processed, answer, executed, parsed, steps, failure, translated_ok >>

client_vars == << cpc, creq, cresp, ccalls, last_op, touch, origins, lock >>

key_vars == << key_in, key_out >>

gate_vars == << gate_in, gate_out >>

text_vars == << text_in, text_out >>

vars == << cfg, mode, turn_vars, client_vars, key_vars, gate_vars, text_vars >>

(* Callers of generate on one shared client *)
NumCallers == 2

Callers == 1..NumCallers

NoOp == [op |-> "none"]

ClientInit ==
    /\ cpc = [c \in Callers |-> "idle"]
    /\ creq = [c \in Callers |-> None]
    /\ cresp = [c \in Callers |-> None]
    /\ ccalls = [c \in Callers |-> 0]
    /\ last_op = NoOp
    /\ touch = <<>>
    /\ origins = <<>>
    /\ lock = None

KeyInit ==
    /\ key_in = None
    /\ key_out = None

GateInit ==
    /\ gate_in = None
    /\ gate_out = None

TextInit ==
    /\ text_in = None
    /\ text_out = None

TurnInit ==
    /\ pc = "read"
    /\ line = <<>>
    /\ command_args = <<>>
    /\ llm_config = None
    /\ client = None
    /\ cache = <<>>
    /\ request = None
    /\ gen_result = None
    /\ result = None
    /\ processed = None
    /\ answer = None
    /\ executed = None
    /\ parsed = None
    /\ steps = <<>>
    /\ failure = "none"
    /\ translated_ok = {}

Init ==
    /\ cfg \in Configs
    /\ mode \in {"interactive", "command"}
    /\ TurnInit
    /\ ClientInit
    /\ KeyInit
    /\ GateInit
    /\ TextInit

(* A caller that stops when a turn is over *)
EndOfTurn_leaves_loop == "exited"

(* Where a finished turn goes: the loop reads again, command mode returns *)
EndOfTurn == IF mode = "interactive" THEN "read" ELSE "exited"

(* A successfully translated line is remembered for the session *)
Remember ==
    IF result.some THEN translated_ok \cup {line} ELSE translated_ok

(* ---------------- run_interactive_mode / main: the caller ------------- *)

(* main.rs:1329-1341: read a line; blank lines are skipped, exit/quit end *)
ReadLine(l) ==
    /\ mode = "interactive"
    /\ pc = "read"
    /\ translated_ok' = Remember
    /\ line' = l
    /\ command_args' = <<>>
    /\ llm_config' = None /\ client' = None /\ cache' = <<>>
    /\ request' = None /\ gen_result' = None /\ result' = None
    /\ processed' = None /\ answer' = None /\ executed' = None /\ parsed' = None
    /\ failure' = "none"
    /\ IF trim(l) = <<>> THEN pc' = "read" /\ steps' = <<"skip_blank">>
       ELSE IF l = LineExit THEN pc' = "exited" /\ steps' = <<"goodbye">>
       ELSE pc' = "caller_classify" /\ steps' = <<"read">>
    /\ UNCHANGED << client_vars, key_vars, gate_vars, text_vars, cfg, mode >>

(* main.rs:1424-1425: command mode joins its arguments into the input *)
ReadArgs(args) ==
    /\ mode = "command"
    /\ pc = "read"
    /\ line' = join(args, <<" ">>)
    /\ command_args' = args
    /\ pc' = "caller_classify"
    /\ steps' = <<"read">>
    /\ UNCHANGED << client_vars, key_vars, gate_vars, text_vars, cfg, mode, llm_config, client, cache, request, gen_result,
                    result, processed, answer, executed, parsed, failure, translated_ok >>

(* The raw input as the caller hands it on: main.rs:1358,1364 / 1452,1458 *)
RawInputIn(m) ==
    IF m = "interactive"
    THEN [src |-> "raw", argv |-> split_whitespace(line)]
    ELSE [src |-> "raw", argv |-> command_args]

RawInput == RawInputIn(mode)

Translated(command) == [src |-> "translated", argv |-> split_whitespace(command)]

(* A caller that sends every line to the translation, unclassified *)
CallerClassify_skips_classifier ==
    /\ pc = "caller_classify"
    /\ pc' = "pnl_flags"
    /\ steps' = Append(steps, "caller_classify")
    /\ UNCHANGED << client_vars, key_vars, gate_vars, text_vars, cfg, mode, line, command_args, llm_config, client,
                    cache, request, gen_result, result, processed, answer, executed, parsed, failure,
                    translated_ok >>

(* main.rs:1343 / 1437: the condition under which a caller tries the     *)
(* translation; command mode also asks for enable_llm                    *)
caller_tries_translation(m, config, l) ==
    IF m = "interactive" THEN is_natural_language(l)
    ELSE is_natural_language(l) /\ config.enable_llm

(* main.rs:1343 / 1437: is the line natural language? *)
CallerClassify ==
    /\ pc = "caller_classify"
    /\ LET nl == caller_tries_translation(mode, cfg, line)
       IN  IF nl THEN /\ pc' = "pnl_flags"
                      /\ UNCHANGED processed
           ELSE /\ pc' = "parse"
                /\ processed' = Some(RawInput)
    /\ steps' = Append(steps, "caller_classify")
    /\ UNCHANGED << client_vars, key_vars, gate_vars, text_vars, cfg, mode, line, command_args, llm_config, client, cache, request,
                    gen_result, result, answer, executed, parsed, failure, translated_ok >>

(* ----------------------- process_natural_language --------------------- *)

(* A flag check that forgets offline_mode *)
pnl_flag_check_ignores_offline(config) == ~config.enable_llm

pnl_flag_check(config) == ~config.enable_llm \/ config.offline_mode

(* main.rs:832-834 *)
PNL_Flags ==
    /\ pc = "pnl_flags"
    /\ steps' = Append(steps, "flag_check")
    /\ IF pnl_flag_check(cfg)
       THEN pc' = "caller_result" /\ result' = None /\ failure' = "flags"
       ELSE pc' = "pnl_classify" /\ UNCHANGED << result, failure >>
    /\ UNCHANGED << client_vars, key_vars, gate_vars, text_vars, cfg, mode, line, command_args, llm_config, client, cache, request,
                    gen_result, processed, answer, executed, parsed, translated_ok >>

(* main.rs:836-839 *)
PNL_Classify ==
    /\ pc = "pnl_classify"
    /\ steps' = Append(steps, "classify")
    /\ IF ~is_natural_language(line)
       THEN pc' = "caller_result" /\ result' = None /\ failure' = "classifier"
       ELSE pc' = "pnl_config" /\ UNCHANGED << result, failure >>
    /\ UNCHANGED << client_vars, key_vars, gate_vars, text_vars, cfg, mode, line, command_args, llm_config, client, cache, request,
                    gen_result, processed, answer, executed, parsed, translated_ok >>

(* An error path that never logs *)
LogIfVerbose_silent(log, entry) == log

(* main.rs:877-879, 884-886, 892-894, 900-902: logs are for verbose mode *)
LogIfVerbose(log, entry) == IF cfg.verbose_mode THEN Append(log, entry) ELSE log

(* main.rs:849 and 899-904 *)
PNL_Config ==
    /\ pc = "pnl_config"
    /\ LET r == to_llm_config(cfg)
       IN  IF r.ok
           THEN /\ llm_config' = Some(r.v)
                /\ pc' = "pnl_client"
                /\ steps' = Append(steps, "to_llm_config")
                /\ UNCHANGED << result, failure >>
           ELSE /\ pc' = "caller_result"
                /\ result' = None
                /\ failure' = "config"
                /\ steps' = LogIfVerbose(Append(steps, "to_llm_config"), "log_config_error")
                /\ UNCHANGED llm_config
    /\ UNCHANGED << client_vars, key_vars, gate_vars, text_vars, cfg, mode, line, command_args, client, cache, request,
                    gen_result, processed, answer, executed, parsed, translated_ok >>

(* main.rs:851 and 891-896: every call builds its own client and cache *)
PNL_Client ==
    /\ pc = "pnl_client"
    /\ LET r == LLMClient_new(llm_config.v, cfg.env)
       IN  IF r.ok
           THEN /\ client' = Some(r.v)
                /\ cache' = <<>>
                /\ pc' = "pnl_prompt"
                /\ steps' = Append(steps, "client_new")
                /\ UNCHANGED << result, failure >>
           ELSE /\ pc' = "caller_result"
                /\ result' = None
                /\ failure' = "client"
                /\ steps' = LogIfVerbose(Append(steps, "client_new"), "log_client_error")
                /\ UNCHANGED << client, cache >>
    /\ UNCHANGED << client_vars, key_vars, gate_vars, text_vars, cfg, mode, line, command_args, llm_config, request,
                    gen_result, processed, answer, executed, parsed, translated_ok >>

(* main.rs:853-862 *)
PNL_Prompt ==
    /\ pc = "pnl_prompt"
    /\ request' = Some([ prompt      |-> build_prompt(clean_input(line), detect_os),
                         max_tokens  |-> cfg.max_tokens,
                         temperature |-> cfg.temperature,
                         context     |-> Some("default_system_prompt") ])
    /\ pc' = "gen_lookup"
    /\ steps' = Append(steps, "build_prompt")
    /\ UNCHANGED << client_vars, key_vars, gate_vars, text_vars, cfg, mode, line, command_args, llm_config, client, cache,
                    gen_result, result, processed, answer, executed, parsed, failure, translated_ok >>

(* client.rs:89-96: generate looks the key up, under the lock *)
Gen_Lookup ==
    /\ pc = "gen_lookup"
    /\ LET cache_key == calculate_cache_key(client.v.config.model, request.v)
           cached    == lru_get(cache, cache_key)
       IN  /\ cache' = lru_get_promote(cache, cache_key)
           /\ IF cached.some
              THEN /\ gen_result' = Some(Ok(cached.v))
                   /\ pc' = "pnl_match"
                   /\ steps' = Append(steps, "cache_hit")
              ELSE /\ pc' = "gen_provider"
                   /\ steps' = Append(steps, "cache_miss")
                   /\ UNCHANGED gen_result
    /\ UNCHANGED << client_vars, key_vars, gate_vars, text_vars, cfg, mode, line, command_args, llm_config, client, request,
                    result, processed, answer, executed, parsed, failure, translated_ok >>

(* A generate that calls the provider again after an error *)
Gen_Provider_retries(outcome) ==
    /\ pc = "gen_provider"
    /\ LET r == LLMProviderEnum_generate(client.v.provider, outcome)
       IN  /\ gen_result' = Some(r)
           /\ pc' = IF r.ok THEN "gen_insert"
                    ELSE IF gen_result.some THEN "pnl_match" ELSE "gen_provider"
    /\ steps' = Append(steps, "provider_call")
    /\ UNCHANGED << client_vars, key_vars, gate_vars, text_vars, cfg, mode, line, command_args, llm_config, client,
                    cache, request, result, processed, answer, executed, parsed, failure, translated_ok >>

(* client.rs:99: the provider call; an error leaves generate at once *)
Gen_Provider(outcome) ==
    /\ pc = "gen_provider"
    /\ LET r == LLMProviderEnum_generate(client.v.provider, outcome)
       IN  /\ gen_result' = Some(r)
           /\ pc' = IF r.ok THEN "gen_insert" ELSE "pnl_match"
    /\ steps' = IF outcome.kind = "ok" /\ outcome.texts = <<>>
                THEN steps \o <<"provider_call", "empty_response_list">>
                ELSE Append(steps, "provider_call")
    /\ UNCHANGED << client_vars, key_vars, gate_vars, text_vars, cfg, mode, line, command_args, llm_config, client, cache, request,
                    result, processed, answer, executed, parsed, failure, translated_ok >>

(* client.rs:101-107: the response is cached, under the lock, and returned *)
Gen_Insert ==
    /\ pc = "gen_insert"
    /\ cache' = lru_put(cache, calculate_cache_key(client.v.config.model, request.v),
                        gen_result.v.v)
    /\ pc' = "pnl_match"
    /\ steps' = Append(steps, "cache_insert")
    /\ UNCHANGED << client_vars, key_vars, gate_vars, text_vars, cfg, mode, line, command_args, llm_config, client, request, gen_result,
                    result, processed, answer, executed, parsed, failure, translated_ok >>

(* A safety check that warns and never refuses *)
pnl_blocks_warn_only(config, command) == FALSE

(* main.rs:869-875: the safety check refuses a dangerous command when blocking *)
pnl_blocks(config, command) ==
    is_dangerous_command(config, command) /\ config.block_destructive

(* main.rs:883-888: what a failed generate becomes *)
pnl_on_generate_error(config, e) == None

(* A translation that starts generate again when it fails *)
PNL_Match_retries ==
    /\ pc = "pnl_match"
    /\ IF gen_result.v.ok
       THEN LET command == trim(gen_result.v.v.content)
            IN  /\ pc' = "caller_result"
                /\ IF pnl_blocks(cfg, command)
                   THEN /\ result' = None
                        /\ failure' = "blocked"
                        /\ steps' = Append(steps, "print_blocked")
                   ELSE /\ result' = Some(command)
                        /\ steps' = LogIfVerbose(steps, "log_translated")
                        /\ UNCHANGED failure
       ELSE /\ pc' = "gen_lookup"
            /\ steps' = <<"read", "caller_classify", "flag_check">>
            /\ UNCHANGED << result, failure >>
    /\ UNCHANGED << client_vars, key_vars, gate_vars, text_vars, cfg, mode, line, command_args, llm_config, client,
                    cache, request, gen_result, processed, answer, executed, parsed, translated_ok >>

(* main.rs:864-889: the client is dropped when the call returns *)
PNL_Match ==
    /\ pc = "pnl_match"
    /\ pc' = "caller_result"
    /\ IF gen_result.v.ok
       THEN LET command == trim(gen_result.v.v.content)
                warned  == IF is_dangerous_command(cfg, command)
                           THEN Append(steps, "warn_dangerous") ELSE steps
            IN  IF pnl_blocks(cfg, command)
                THEN /\ result' = None
                     /\ failure' = "blocked"
                     /\ steps' = Append(warned, "print_blocked")
                ELSE /\ result' = Some(command)
                     /\ steps' = LogIfVerbose(warned, "log_translated")
                     /\ UNCHANGED failure
       ELSE /\ result' = pnl_on_generate_error(cfg, gen_result.v.e)
            /\ failure' = "provider"
            /\ steps' = LogIfVerbose(steps, "log_llm_error")
    /\ UNCHANGED << client_vars, key_vars, gate_vars, text_vars, cfg, mode, line, command_args, llm_config, client, cache, request,
                    gen_result, processed, answer, executed, parsed, translated_ok >>

(* ------------------------ the caller, continued ----------------------- *)

(* main.rs:1344-1362 / 1438-1456 *)
CallerResult ==
    /\ pc = "caller_result"
    /\ IF result.some
       THEN IF requires_confirmation(cfg, result.v)
            THEN /\ pc' = "confirm"
                 /\ steps' = Append(steps, "prompt_confirm")
                 /\ UNCHANGED processed
            ELSE /\ pc' = "parse"
                 /\ processed' = Some(Translated(result.v))
                 /\ UNCHANGED steps
       ELSE IF cfg.fallback_to_traditional
            THEN /\ pc' = "parse"
                 /\ processed' = Some(RawInput)
                 /\ UNCHANGED steps
            ELSE /\ pc' = EndOfTurn
                 /\ steps' = Append(steps, "print_could_not_process")
                 /\ UNCHANGED processed
    /\ UNCHANGED << client_vars, key_vars, gate_vars, text_vars, cfg, mode, line, command_args, llm_config, client, cache, request,
                    gen_result, result, answer, executed, parsed, failure, translated_ok >>

(* A confirmation that takes everything but "n..." for a yes *)
is_affirmative_default_yes(confirmation) ==
    ~starts_with(to_lowercase(trim(confirmation)), <<"n">>)

(* main.rs:1351 / 1445 *)
is_affirmative(confirmation) == starts_with(to_lowercase(trim(confirmation)), <<"y">>)

(* main.rs:1347-1356 / 1441-1450 *)
Confirm(a) ==
    /\ pc = "confirm"
    /\ answer' = Some(a)
    /\ IF is_affirmative(a)
       THEN /\ pc' = "parse"
            /\ processed' = Some(Translated(result.v))
            /\ UNCHANGED steps
       ELSE /\ pc' = EndOfTurn
            /\ steps' = Append(steps, "print_cancelled")
            /\ UNCHANGED processed
    /\ UNCHANGED << client_vars, key_vars, gate_vars, text_vars, cfg, mode, line, command_args, llm_config, client, cache, request,
                    gen_result, result, executed, parsed, failure, translated_ok >>

(* main.rs:1368-1383 / 1462-1466: the command parse_command builds is run *)
ParseExec ==
    /\ pc = "parse"
    /\ executed' = processed
    /\ parsed' = parse_command(processed.v.argv)
    /\ pc' = EndOfTurn
    /\ steps' = Append(steps, "parse_command")
    /\ UNCHANGED << client_vars, key_vars, gate_vars, text_vars, cfg, mode, line, command_args, llm_config, client, cache, request,
                    gen_result, result, processed, answer, failure, translated_ok >>

Next ==
    \/ \E l \in Lines : ReadLine(l)
    \/ \E args \in ArgVectors : ReadArgs(args)
    \/ CallerClassify
    \/ PNL_Flags
    \/ PNL_Classify
    \/ PNL_Config
    \/ PNL_Client
    \/ PNL_Prompt
    \/ Gen_Lookup
    \/ \E outcome \in ProviderOutcomes : Gen_Provider(outcome)
    \/ Gen_Insert
    \/ PNL_Match
    \/ CallerResult
    \/ \E a \in Answers : Confirm(a)
    \/ ParseExec

Spec == Init /\ [][Next]_vars

(* The steps the program takes by itself: everything but the reads of a    *)
(* line, of the arguments and of a confirmation reply. The provider call   *)
(* is one of them: the HTTP client has a timeout of 30 seconds             *)
(* (openai.rs:50-52), so the call returns a response or an error.          *)
ProgramStep ==
    \/ CallerClassify
    \/ PNL_Flags
    \/ PNL_Classify
    \/ PNL_Config
    \/ PNL_Client
    \/ PNL_Prompt
    \/ Gen_Lookup
    \/ \E outcome \in ProviderOutcomes : Gen_Provider(outcome)
    \/ Gen_Insert
    \/ PNL_Match
    \/ CallerResult
    \/ ParseExec

(* The turn pipeline with the program's own steps taken when they can be *)
SpecTurn == Init /\ [][Next]_vars /\ WF_vars(ProgramStep)

(* ------------- LLMClient shared by callers of generate ---------------- *)

DefaultConfig ==
    [ enable_llm              |-> TRUE,
      offline_mode            |-> FALSE,
      fallback_to_traditional |-> TRUE,
      block_destructive       |-> FALSE,
      confirm_destructive     |-> TRUE,
      verbose_mode            |-> FALSE,
      provider                |-> StrOpenai,
      api_key_env             |-> Some(StrLiteralKey),
      env                     |-> EmptyEnv,
      model                   |-> StrGpt,
      endpoint                |-> None,
      enable_cache            |-> TRUE,
      max_tokens              |-> DefaultMaxTokens,
      temperature             |-> DefaultTemperatureMilli,
      require_confirmation    |-> default_require_confirmation,
      dangerous_patterns      |-> default_dangerous_patterns ]

LLMRequest(user_input, temperature, context) ==
    [ prompt      |-> build_prompt(user_input, detect_os),
      max_tokens  |-> DefaultMaxTokens,
      temperature |-> temperature,
      context     |-> context ]

SystemContext == Some("default_system_prompt")

(* Requests of a client used by one caller: four keys, one of them shared  *)
(* by two requests whose temperatures are 0.101 and 0.109                  *)
Requests ==
    { LLMRequest(LineCreate, 101, SystemContext),
      LLMRequest(LineCreate, 109, SystemContext),
      LLMRequest(LineCreate, 101, None),
      LLMRequest(LineLs, 101, SystemContext),
      LLMRequest(CmdMkdir, 101, SystemContext) }

(* Requests of parallel callers *)
ParRequests ==
    { LLMRequest(LineCreate, 100, SystemContext),
      LLMRequest(LineLs, 100, SystemContext) }

(* What the provider can answer to a caller of generate *)
GenOutcomes ==
    { [kind |-> "network_error"],
      [kind |-> "ok", texts |-> <<CmdMkdir>>],
      [kind |-> "ok", texts |-> <<CmdRm>>] }

(* The configurations a shared client is built from: the defaults with    *)
(* llm.enable_cache either way (config/mod.rs:24, 62)                    *)
ClientConfigs == { [DefaultConfig EXCEPT !.enable_cache = b] : b \in BOOLEAN }

SharedClientInit ==
    /\ cfg \in ClientConfigs
    /\ mode = "client"
    /\ pc = "client"
    /\ line = <<>>
    /\ command_args = <<>>
    /\ llm_config = Some(to_llm_config(cfg).v)
    /\ client = Some(LLMClient_new(to_llm_config(cfg).v, cfg.env).v)
    /\ cache = <<>>
    /\ request = None
    /\ gen_result = None
    /\ result = None
    /\ processed = None
    /\ answer = None
    /\ executed = None
    /\ parsed = None
    /\ steps = <<>>
    /\ failure = "none"
    /\ translated_ok = {}
    /\ ClientInit
    /\ KeyInit
    /\ GateInit
    /\ TextInit

Touch(order, key) == << key >> \o SelectSeq(order, LAMBDA k : k # key)

CacheKeys(entries) == [i \in 1..Len(entries) |-> entries[i].key]

KeySet(entries) == {entries[i].key : i \in 1..Len(entries)}

OriginOf(key) ==
    IF \E i \in DOMAIN origins : origins[i].key = key
    THEN Some(origins[CHOOSE i \in DOMAIN origins : origins[i].key = key].request)
    ELSE None

(* The operation before a lookup, when it was a put: what it stored *)
PutBefore ==
    IF last_op.op = "put"
    THEN Some([key |-> last_op.key, value |-> last_op.value, request |-> last_op.request])
    ELSE None

(* client.rs:87-89: a caller enters generate with its request *)
generate_call(c, r) ==
    /\ cpc[c] = "idle"
    /\ cpc' = [cpc EXCEPT ![c] = "lookup"]
    /\ creq' = [creq EXCEPT ![c] = Some(r)]
    /\ UNCHANGED << cresp, ccalls, last_op, touch, origins, lock >>
    /\ UNCHANGED << cfg, mode, turn_vars, key_vars, gate_vars, text_vars >>

(* client.rs:92, 103: self.cache.lock().await completes when the Mutex is *)
(* free; until then the caller waits                                     *)
lock_cache(c) ==
    /\ cpc[c] \in {"lookup", "insert"}
    /\ lock = None
    /\ lock' = Some(c)
    /\ UNCHANGED << cpc, creq, cresp, ccalls, last_op, touch, origins >>
    /\ UNCHANGED << cfg, mode, turn_vars, key_vars, gate_vars, text_vars >>

(* A lookup that is skipped when llm.enable_cache is off *)
generate_lookup_honours_flag(c) ==
    /\ cpc[c] = "lookup"
    /\ lock = Some(c)
    /\ lock' = None
    /\ LET cache_key == calculate_cache_key(client.v.config.model, creq[c].v)
           cached    == IF cfg.enable_cache THEN lru_get(cache, cache_key) ELSE None
       IN  /\ cache' = IF cfg.enable_cache THEN lru_get_promote(cache, cache_key) ELSE cache
           /\ last_op' = [ op |-> IF cached.some THEN "get_hit" ELSE "get_miss",
                           key |-> cache_key, caller |-> c, request |-> creq[c].v,
                           found |-> cached, returned |-> cached.some,
                           calls |-> ccalls[c], origin |-> OriginOf(cache_key),
                           after_put |-> PutBefore ]
           /\ IF cached.some
              THEN /\ cpc' = [cpc EXCEPT ![c] = "idle"]
                   /\ creq' = [creq EXCEPT ![c] = None]
                   /\ touch' = Touch(touch, cache_key)
              ELSE /\ cpc' = [cpc EXCEPT ![c] = "provider"]
                   /\ UNCHANGED << creq, touch >>
    /\ UNCHANGED << cresp, ccalls, origins >>
    /\ UNCHANGED << cfg, mode, pc, line, command_args, llm_config, client, request,
                    gen_result, result, processed, answer, executed, parsed, steps, failure,
                    translated_ok, key_vars, gate_vars, text_vars >>

(* A lookup whose guard lives on after a miss, to the end of generate *)
generate_lookup_keeps_lock(c) ==
    /\ cpc[c] = "lookup"
    /\ lock = Some(c)
    /\ LET cache_key == calculate_cache_key(client.v.config.model, creq[c].v)
           cached    == lru_get(cache, cache_key)
       IN  /\ cache' = lru_get_promote(cache, cache_key)
           /\ last_op' = [ op |-> IF cached.some THEN "get_hit" ELSE "get_miss",
                           key |-> cache_key, caller |-> c, request |-> creq[c].v,
                           found |-> cached, returned |-> cached.some,
                           calls |-> ccalls[c], origin |-> OriginOf(cache_key),
                           after_put |-> PutBefore ]
           /\ IF cached.some
              THEN /\ cpc' = [cpc EXCEPT ![c] = "idle"]
                   /\ creq' = [creq EXCEPT ![c] = None]
                   /\ touch' = Touch(touch, cache_key)
                   /\ lock' = None
              ELSE /\ cpc' = [cpc EXCEPT ![c] = "provider"]
                   /\ UNCHANGED << creq, touch, lock >>
    /\ UNCHANGED << cresp, ccalls, origins >>
    /\ UNCHANGED << cfg, mode, pc, line, command_args, llm_config, client, request,
                    gen_result, result, processed, answer, executed, parsed, steps, failure,
                    translated_ok, key_vars, gate_vars, text_vars >>

(* client.rs:91-96: lock, get, return the clone on a hit, unlock *)
generate_lookup(c) ==
    /\ cpc[c] = "lookup"
    /\ lock = Some(c)
    /\ lock' = None
    /\ LET cache_key == calculate_cache_key(client.v.config.model, creq[c].v)
           cached    == lru_get(cache, cache_key)
       IN  /\ cache' = lru_get_promote(cache, cache_key)
           /\ last_op' = [ op |-> IF cached.some THEN "get_hit" ELSE "get_miss",
                           key |-> cache_key, caller |-> c, request |-> creq[c].v,
                           found |-> cached, returned |-> cached.some,
                           calls |-> ccalls[c], origin |-> OriginOf(cache_key),
                           after_put |-> PutBefore ]
           /\ IF cached.some
              THEN /\ cpc' = [cpc EXCEPT ![c] = "idle"]
                   /\ creq' = [creq EXCEPT ![c] = None]
                   /\ touch' = Touch(touch, cache_key)
              ELSE /\ cpc' = [cpc EXCEPT ![c] = "provider"]
                   /\ UNCHANGED << creq, touch >>
    /\ UNCHANGED << cresp, ccalls, origins >>
    /\ UNCHANGED << cfg, mode, pc, line, command_args, llm_config, client, request,
                    gen_result, result, processed, answer, executed, parsed, steps, failure,
                    translated_ok, key_vars, gate_vars, text_vars >>

(* A generate that empties the cache when its provider call fails *)
generate_provider_clears_on_error(c, outcome) ==
    /\ cpc[c] = "provider"
    /\ LET r == LLMProviderEnum_generate(client.v.provider, outcome)
       IN  IF r.ok
           THEN /\ cresp' = [cresp EXCEPT ![c] = Some(r.v)]
                /\ cpc' = [cpc EXCEPT ![c] = "insert"]
                /\ ccalls' = [ccalls EXCEPT ![c] = @ + 1]
                /\ UNCHANGED << creq, cache, touch, origins >>
           ELSE /\ cpc' = [cpc EXCEPT ![c] = "idle"]
                /\ creq' = [creq EXCEPT ![c] = None]
                /\ ccalls' = [ccalls EXCEPT ![c] = 0]
                /\ cache' = <<>> /\ touch' = <<>> /\ origins' = <<>>
                /\ UNCHANGED cresp
    /\ UNCHANGED << last_op, lock, cfg, mode, pc, line, command_args, llm_config, client, request,
                    gen_result, result, processed, answer, executed, parsed, steps, failure,
                    translated_ok, key_vars, gate_vars, text_vars >>

(* client.rs:99: the provider call, made without the lock; `?` returns an error *)
generate_provider(c, outcome) ==
    /\ cpc[c] = "provider"
    /\ LET r == LLMProviderEnum_generate(client.v.provider, outcome)
       IN  IF r.ok
           THEN /\ cresp' = [cresp EXCEPT ![c] = Some(r.v)]
                /\ cpc' = [cpc EXCEPT ![c] = "insert"]
                /\ ccalls' = [ccalls EXCEPT ![c] = @ + 1]
                /\ UNCHANGED creq
           ELSE /\ cpc' = [cpc EXCEPT ![c] = "idle"]
                /\ creq' = [creq EXCEPT ![c] = None]
                /\ ccalls' = [ccalls EXCEPT ![c] = 0]
                /\ UNCHANGED cresp
    /\ UNCHANGED << last_op, touch, origins, lock >>
    /\ UNCHANGED << cfg, mode, turn_vars, key_vars, gate_vars, text_vars >>

(* client.rs:101-107: lock, put, unlock, return the response *)
generate_insert(c) ==
    /\ cpc[c] = "insert"
    /\ lock = Some(c)
    /\ lock' = None
    /\ LET cache_key == calculate_cache_key(client.v.config.model, creq[c].v)
           i         == lru_index(cache, cache_key)
           new       == lru_put(cache, cache_key, cresp[c].v)
           gone      == KeySet(cache) \ KeySet(new)
       IN  /\ cache' = new
           /\ last_op' = [ op |-> "put", key |-> cache_key, value |-> cresp[c].v,
                           caller |-> c, request |-> creq[c].v, calls |-> ccalls[c],
                           size_before |-> Len(cache),
                           old |-> IF i = 0 THEN None ELSE Some(cache[i].value),
                           evicted |-> gone,
                           oldest_put |-> IF origins = <<>> THEN None
                                          ELSE Some(origins[Len(origins)].key) ]
           /\ touch' = Touch(touch, cache_key)
           /\ origins' = << [key |-> cache_key, request |-> creq[c].v,
                              value |-> cresp[c].v] >>
                         \o SelectSeq(origins, LAMBDA o : o.key \in KeySet(new)
                                                         /\ o.key # cache_key)
    /\ cpc' = [cpc EXCEPT ![c] = "idle"]
    /\ creq' = [creq EXCEPT ![c] = None]
    /\ cresp' = [cresp EXCEPT ![c] = None]
    /\ ccalls' = [ccalls EXCEPT ![c] = 0]
    /\ UNCHANGED << cfg, mode, pc, line, command_args, llm_config, client, request,
                    gen_result, result, processed, answer, executed, parsed, steps, failure,
                    translated_ok, key_vars, gate_vars, text_vars >>

(* client.rs:135-138: lock, clear, unlock, by a caller with no other state *)
clear_cache ==
    /\ pc = "client"
    /\ lock = None
    /\ cache' = <<>>
    /\ last_op' = [op |-> "clear"]
    /\ touch' = <<>>
    /\ origins' = <<>>
    /\ UNCHANGED << cpc, creq, cresp, ccalls, lock >>
    /\ UNCHANGED << cfg, mode, pc, line, command_args, llm_config, client, request,
                    gen_result, result, processed, answer, executed, parsed, steps, failure,
                    translated_ok, key_vars, gate_vars, text_vars >>

(* client.rs:140-143: lock, len, unlock *)
cache_size ==
    /\ pc = "client"
    /\ lock = None
    /\ last_op' = [op |-> "len", value |-> Len(cache)]
    /\ UNCHANGED << cpc, creq, cresp, ccalls, touch, origins, lock >>
    /\ UNCHANGED << cfg, mode, turn_vars, key_vars, gate_vars, text_vars >>

(* The client of the default configuration *)
DefaultClientInit == SharedClientInit /\ cfg = DefaultConfig

(* One caller uses the client: its calls are sequential *)
NextCache ==
    \/ \E r \in Requests : generate_call(1, r)
    \/ lock_cache(1)
    \/ generate_lookup(1)
    \/ \E outcome \in GenOutcomes : generate_provider(1, outcome)
    \/ generate_insert(1)
    \/ clear_cache
    \/ cache_size

SpecCache == DefaultClientInit /\ [][NextCache]_vars

(* Parallel callers share the client *)
NextPar ==
    \/ \E c \in Callers, r \in ParRequests : generate_call(c, r)
    \/ \E c \in Callers : lock_cache(c)
    \/ \E c \in Callers : generate_lookup(c)
    \/ \E c \in Callers, outcome \in GenOutcomes : generate_provider(c, outcome)
    \/ \E c \in Callers : generate_insert(c)
    \/ clear_cache
    \/ cache_size

SpecPar == DefaultClientInit /\ [][NextPar]_vars

(* The same callers on a client built with llm.enable_cache on or off *)
SpecFlag == SharedClientInit /\ [][NextPar]_vars

(* ------------------- the fingerprint as a function -------------------- *)

(* Temperatures of the fingerprint check: 0.000 .. 0.012 and the top of    *)
(* the range [0,2], in thousandths                                         *)
MaxTempMilli == 12

KeyTemps == (0..MaxTempMilli) \cup {1994, 1995, 2000}

KeyRequests ==
    { [ prompt      |-> build_prompt(u, detect_os),
        max_tokens  |-> m,
        temperature |-> t,
        context     |-> cx ]
      : u \in {LineCreate, LineLs}, m \in {DefaultMaxTokens, DefaultMaxTokens + 1},
        t \in KeyTemps, cx \in {None, SystemContext} }

KeyModels == {StrGpt, StrClaudeModel}

KeySpecInit ==
    /\ cfg = DefaultConfig
    /\ mode = "key"
    /\ pc = "key"
    /\ line = <<>>
    /\ command_args = <<>>
    /\ llm_config = None
    /\ client = None
    /\ cache = <<>>
    /\ request = None
    /\ gen_result = None
    /\ result = None
    /\ processed = None
    /\ answer = None
    /\ executed = None
    /\ parsed = None
    /\ steps = <<>>
    /\ failure = "none"
    /\ translated_ok = {}
    /\ ClientInit
    /\ key_in \in {Some([model |-> m, r1 |-> a, r2 |-> b]) :
                      m \in KeyModels, a \in KeyRequests, b \in KeyRequests}
    /\ key_out = None
    /\ GateInit
    /\ TextInit

(* client.rs:122-133 applied to both requests *)
compute_keys ==
    /\ pc = "key"
    /\ key_in.some
    /\ key_out = None
    /\ key_out' = Some([ k1 |-> calculate_cache_key(key_in.v.model, key_in.v.r1),
                         k2 |-> calculate_cache_key(key_in.v.model, key_in.v.r2) ])
    /\ UNCHANGED << cfg, mode, turn_vars, client_vars, key_in, gate_vars, text_vars >>

NextKey == compute_keys

SpecKey == KeySpecInit /\ [][NextKey]_vars

(* ------------------- the safety gate as two functions ----------------- *)

(* Commands put to the gate: those of the tests at config/mod.rs:228-246   *)
(* and variants in upper case and with the pattern away from the start     *)
GateCommands ==
    { GateRmRoot, GateSudoRm, GateLs, GateMkdir, GateRmFile, GateDelete,
      GateUpperRm, GateUpperDelete, GateEchoRm }

(* Pattern lists a configuration file can hold *)
GateDangerousLists == { default_dangerous_patterns, << PatternUpper >>, <<>> }

GateConfirmLists == { default_require_confirmation, << ConfirmUpper >>, <<>> }

GateConfigs ==
    { [DefaultConfig EXCEPT !.dangerous_patterns   = d,
                            !.require_confirmation = r,
                            !.confirm_destructive  = c,
                            !.block_destructive    = b]
      : d \in GateDangerousLists, r \in GateConfirmLists, c \in BOOLEAN, b \in BOOLEAN }

GateSpecInit ==
    /\ cfg = DefaultConfig
    /\ mode = "gate"
    /\ pc = "gate"
    /\ line = <<>>
    /\ command_args = <<>>
    /\ llm_config = None
    /\ client = None
    /\ cache = <<>>
    /\ request = None
    /\ gen_result = None
    /\ result = None
    /\ processed = None
    /\ answer = None
    /\ executed = None
    /\ parsed = None
    /\ steps = <<>>
    /\ failure = "none"
    /\ translated_ok = {}
    /\ ClientInit
    /\ KeyInit
    /\ gate_in \in {Some([config |-> c, command |-> x]) : c \in GateConfigs, x \in GateCommands}
    /\ gate_out = None
    /\ TextInit

(* config/mod.rs:181-209 applied to the command *)
apply_gate ==
    /\ pc = "gate"
    /\ gate_in.some
    /\ gate_out = None
    /\ gate_out' = Some([ dangerous |-> is_dangerous_command(gate_in.v.config, gate_in.v.command),
                          confirm   |-> requires_confirmation(gate_in.v.config, gate_in.v.command) ])
    /\ UNCHANGED << cfg, mode, turn_vars, client_vars, key_vars, gate_in, text_vars >>

NextGate == apply_gate

SpecGate == GateSpecInit /\ [][NextGate]_vars

(* ------------- the classifier and the prompt builder as functions ----- *)

(* Longest generated input of the classifier check, in words *)
MaxWords == 4

TextWords == {WordLs, WordA, WordThe, WordCreate, WordX}

(* All sequences of at most MaxWords words, joined by single spaces *)
WordSequences == UNION { [1..n -> TextWords] : n \in 0..MaxWords }

(* Inputs of is_natural_language: the generated ones, those of the test at *)
(* prompts.rs:148-158, and inputs with other function words and spacing    *)
ClassifierInputs ==
    { join(ws, <<" ">>) : ws \in WordSequences }
    \cup { TextEmpty, LineLs, CmdMkdir, TextCd, TextCreateNew, TextPlease, TextIWant,
           TextHowTo, TextCpTo, TextAnd, TextOr, TextAn, TextTabs, TextTwoSpaces,
           TextThreeThe, LineBlank }

(* Arguments of build_prompt: the ids detect_os can return and others *)
OsIds == {"windows", "linux", "macos", "unknown", "freebsd", "Linux", ""}

PromptInputs == {LineCreate, LineLs, TextEmpty, LineQuoted}

TextSpecInit ==
    /\ cfg = DefaultConfig
    /\ mode = "text"
    /\ pc = "text"
    /\ line = <<>>
    /\ command_args = <<>>
    /\ llm_config = None
    /\ client = None
    /\ cache = <<>>
    /\ request = None
    /\ gen_result = None
    /\ result = None
    /\ processed = None
    /\ answer = None
    /\ executed = None
    /\ parsed = None
    /\ steps = <<>>
    /\ failure = "none"
    /\ translated_ok = {}
    /\ ClientInit
    /\ KeyInit
    /\ GateInit
    /\ text_in \in {Some([fn |-> "is_natural_language", input |-> t]) : t \in ClassifierInputs}
                   \cup {Some([fn |-> "build_prompt", user_input |-> u, os |-> o]) :
                            u \in PromptInputs, o \in OsIds}
    /\ text_out = None

(* prompts.rs:103-132 applied to the input *)
apply_is_natural_language ==
    /\ pc = "text"
    /\ text_in.some /\ text_in.v.fn = "is_natural_language"
    /\ text_out = None
    /\ text_out' = Some(is_natural_language(text_in.v.input))
    /\ UNCHANGED << cfg, mode, turn_vars, client_vars, key_vars, gate_vars, text_in >>

(* prompts.rs:35-47 applied to the request and the OS id *)
apply_build_prompt ==
    /\ pc = "text"
    /\ text_in.some /\ text_in.v.fn = "build_prompt"
    /\ text_out = None
    /\ text_out' = Some(build_prompt(text_in.v.user_input, text_in.v.os))
    /\ UNCHANGED << cfg, mode, turn_vars, client_vars, key_vars, gate_vars, text_in >>

NextText ==
    \/ apply_is_natural_language
    \/ apply_build_prompt

SpecText == TextSpecInit /\ [][NextText]_vars

(* ============================ properties ============================== *)

HasStep(s) == \E i \in DOMAIN steps : steps[i] = s

TurnEnded == pc \in {"read", "exited"}

Take(s, n) == SubSeq(s, 1, IF Len(s) < n THEN Len(s) ELSE n)

(* round(temperature * 100), the temperature in thousandths *)
RoundTemp(t) == (t * 100 + 500) \div 1000

NetworkCapableSteps ==
    {"to_llm_config", "client_new", "cache_hit", "cache_miss", "provider_call", "cache_insert"}

PNLSteps == NetworkCapableSteps \cup {"classify", "build_prompt"}

(* C1: when enable_llm is off or offline_mode is on, process_natural_language *)
(* returns None and the turn holds no network-capable step (config          *)
(* resolution, client construction, cache lookup, provider call); and in    *)
(* every turn the flag check comes before every other step of the function. *)
C1_FlagsShortCircuit ==
    /\ (~cfg.enable_llm \/ cfg.offline_mode) =>
          /\ result = None
          /\ client = None
          /\ \A i \in DOMAIN steps : steps[i] \notin NetworkCapableSteps
    /\ \A i \in DOMAIN steps :
          steps[i] \in PNLSteps => \E j \in 1..(i - 1) : steps[j] = "flag_check"

C1_Witness ==
    /\ cfg.offline_mode
    /\ cfg.enable_llm
    /\ HasStep("flag_check")
    /\ failure = "flags"
    /\ pc = "caller_result"

(* C2: with block_destructive on, a translated command that                 *)
(* is_dangerous_command flags is refused: process_natural_language returns  *)
(* None, and that command is never split into an argument vector nor handed *)
(* to parse_command.                                                        *)
C2_BlockedNeverHandedOn ==
    (/\ cfg.block_destructive
     /\ gen_result.some
     /\ gen_result.v.ok
     /\ is_dangerous_command(cfg, trim(gen_result.v.v.content)))
    => /\ result = None
       /\ pc # "confirm"
       /\ processed # Some(Translated(trim(gen_result.v.v.content)))
       /\ executed # Some(Translated(trim(gen_result.v.v.content)))
       /\ (processed.some => processed.v.src = "raw")
       /\ (executed.some => executed.v.src = "raw")

C2_Witness ==
    /\ cfg.block_destructive
    /\ failure = "blocked"
    /\ HasStep("print_blocked")
    /\ TurnEnded

C3_SaysYes(a) ==
    LET t == to_lowercase(trim(a)) IN Len(t) > 0 /\ t[1] = "y"

(* C3: in both modes a translated command that requires confirmation is     *)
(* handed to parse_command only after the prompt was shown and answered     *)
(* with a yes; on any other answer the turn ends with nothing executed; a   *)
(* translated command that requires none is handed on without a prompt.     *)
C3_ConfirmBeforeExecute ==
    result.some =>
        LET needs  == requires_confirmation(cfg, result.v)
            handed == processed = Some(Translated(result.v))
                      \/ executed = Some(Translated(result.v))
        IN  /\ (needs /\ handed) =>
                  /\ HasStep("prompt_confirm")
                  /\ answer.some
                  /\ C3_SaysYes(answer.v)
            /\ (needs /\ answer.some /\ ~C3_SaysYes(answer.v)) =>
                  /\ TurnEnded
                  /\ processed = None
                  /\ executed = None
            /\ ~needs =>
                  /\ ~HasStep("prompt_confirm")
                  /\ answer = None
                  /\ (TurnEnded => executed = Some(Translated(result.v)))

C3_Witness ==
    /\ mode = "command"
    /\ result.some
    /\ is_dangerous_command(cfg, result.v)
    /\ requires_confirmation(cfg, result.v)
    /\ answer.some
    /\ executed = Some(Translated(result.v))

SameFingerprintInputs(a, b) ==
    /\ a.prompt = b.prompt
    /\ a.max_tokens = b.max_tokens
    /\ RoundTemp(a.temperature) = RoundTemp(b.temperature)
    /\ a.context = b.context

(* C4: a cache hit is only ever served to a request that equals, in prompt, *)
(* max_tokens, rounded temperature, context and model, the request whose    *)
(* response was stored under the key.                                       *)
C4_HitOnlyForEqualInputs ==
    last_op.op = "get_hit" =>
        /\ last_op.origin.some
        /\ SameFingerprintInputs(last_op.request, last_op.origin.v)

(* C5: once generate has stored a response for a request, a lookup for an   *)
(* equal request that follows at once finds that response, returns it, and  *)
(* makes no provider call.                                                  *)
C5_RoundTrip ==
    (/\ last_op.op \in {"get_hit", "get_miss"}
     /\ last_op.after_put.some
     /\ last_op.after_put.v.request = last_op.request)
    => /\ last_op.found = Some(last_op.after_put.v.value)
       /\ last_op.returned
       /\ last_op.calls = 0

C5_Witness ==
    /\ last_op.op = "get_hit"
    /\ last_op.after_put.some
    /\ last_op.after_put.v.request = last_op.request
    /\ Len(cache) = CacheCapacity

(* C6: a line that an earlier turn of the session translated is served from *)
(* the cache when it is typed again: no cache miss, no provider call.       *)
C6_RepeatedPromptServedFromCache ==
    line \in translated_ok => ~HasStep("cache_miss") /\ ~HasStep("provider_call")

(* C7: the cache holds the CacheCapacity most recently used keys, most      *)
(* recent first, where a hit and a put both count as use; a put of a new    *)
(* key into a full cache evicts exactly one entry, any other put evicts     *)
(* none.                                                                    *)
C7_StrictLRU ==
    /\ CacheKeys(cache) = Take(touch, CacheCapacity)
    /\ last_op.op = "put" =>
          IF ~last_op.old.some /\ last_op.size_before = CacheCapacity
          THEN Cardinality(last_op.evicted) = 1
          ELSE last_op.evicted = {}

C7_Witness ==
    /\ last_op.op = "put"
    /\ last_op.evicted # {}
    /\ last_op.oldest_put.some
    /\ last_op.oldest_put.v \notin last_op.evicted

(* C8: two requests against one model with equal prompt, max_tokens and     *)
(* context whose temperatures round to the same two decimals have the same  *)
(* cache key.                                                               *)
C8_EqualRoundedTemperaturesShareKey ==
    key_out.some =>
        (SameFingerprintInputs(key_in.v.r1, key_in.v.r2) => key_out.v.k1 = key_out.v.k2)

(* C9: after a provider failure process_natural_language returns None when  *)
(* fallback_to_traditional is on, and the raw input goes to parsing; when   *)
(* it is off the caller receives the provider's error.                      *)
C9_ProviderFailureFollowsFallbackFlag ==
    (failure = "provider" /\ gen_result.some /\ ~gen_result.v.ok) =>
        IF cfg.fallback_to_traditional
        THEN result = None /\ (processed.some => processed = Some(RawInput))
        ELSE result = gen_result.v

(* C10: parallel callers of generate on one client: a caller that missed    *)
(* stores only a response of its own provider call; after a put the cache   *)
(* holds exactly one entry for the key, at the front, with the value just   *)
(* written; every cached value is the one written last under its key; and   *)
(* the recency order is that of the locked operations in the order they     *)
(* took the lock.                                                           *)
C10_ParallelMisses ==
    /\ \A c \in Callers : cpc[c] = "insert" => ccalls[c] = 1 /\ cresp[c].some
    /\ last_op.op = "put" =>
          /\ last_op.calls = 1
          /\ cache # <<>>
          /\ cache[1] = [key |-> last_op.key, value |-> last_op.value]
          /\ Cardinality({i \in DOMAIN cache : cache[i].key = last_op.key}) = 1
    /\ \A i \in DOMAIN cache :
          \E j \in DOMAIN origins :
             origins[j].key = cache[i].key /\ origins[j].value = cache[i].value
    /\ \A i, j \in DOMAIN cache : cache[i].key = cache[j].key => i = j
    /\ CacheKeys(cache) = Take(touch, CacheCapacity)

C10_Witness ==
    /\ last_op.op = "put"
    /\ last_op.old.some
    /\ last_op.old.v # last_op.value
    /\ last_op.calls = 1

(* ------------------- the turn, the gate and the errors ---------------- *)

(* Steps that exist only on the translation path after the classifier *)
TranslationSteps ==
    {"to_llm_config", "client_new", "build_prompt", "cache_hit", "cache_miss",
     "provider_call", "empty_response_list", "cache_insert"}

(* C11: when the classifier rejects the input of a turn, the turn builds no  *)
(* prompt, constructs no client, does not consult the cache, calls no        *)
(* provider, and the raw input is what is handed to command parsing.         *)
C11_ClassifierRejects ==
    (HasStep("caller_classify") /\ ~is_natural_language(line)) =>
        /\ \A i \in DOMAIN steps : steps[i] \notin TranslationSteps
        /\ llm_config = None /\ client = None /\ request = None
        /\ gen_result = None /\ result = None /\ cache = <<>>
        /\ processed = Some([src |-> "raw", argv |-> split_whitespace(line)])
        /\ pc \in {"parse", "read", "exited"}
        /\ TurnEnded => executed = processed

C11_Witness ==
    /\ mode = "interactive"
    /\ line = LineLs
    /\ pc = "read"
    /\ steps = <<"read", "caller_classify", "parse_command">>
    /\ executed = Some([src |-> "raw", argv |-> <<<<"l", "s">>, <<"-", "l", "a">>>>])

(* Positions inside process_natural_language, in program order *)
PNLPositions ==
    << "pnl_flags", "pnl_classify", "pnl_config", "pnl_client", "pnl_prompt",
       "gen_lookup", "gen_provider", "gen_insert", "pnl_match", "caller_result" >>

InPNL == \E i \in 1..(Len(PNLPositions) - 1) : PNLPositions[i] = pc

PositionRank(p) == CHOOSE i \in DOMAIN PNLPositions : PNLPositions[i] = p

(* The terminal states of a turn of the translation *)
TerminalStates ==
    { s \in {"NotTranslated", "Translated", "ProviderFailed"} :
        \/ s = "Translated" /\ result.some
        \/ s = "ProviderFailed" /\ gen_result.some /\ ~gen_result.v.ok
        \/ s = "NotTranslated" /\ result = None
                               /\ ~(gen_result.some /\ ~gen_result.v.ok) }

(* C12: every turn of the translation ends, in exactly one of the terminal   *)
(* states NotTranslated, Translated, ProviderFailed, given that the provider *)
(* call returns: no step inside the translation goes back or stays.          *)
C12_TurnTerminates ==
    /\ [](pc = "caller_result" => Cardinality(TerminalStates) = 1)
    /\ [][InPNL => /\ pc' \in {PNLPositions[i] : i \in DOMAIN PNLPositions}
                   /\ PositionRank(pc') > PositionRank(pc)]_vars
    /\ (InPNL ~> pc = "caller_result")

C12_Witness ==
    /\ pc = "caller_result"
    /\ HasStep("provider_call")
    /\ TerminalStates = {"ProviderFailed"}

ProviderCalls == {i \in DOMAIN steps : steps[i] = "provider_call"}

(* C13: no retries. Within one turn the provider is called at most once, and *)
(* a failed provider call ends the turn's translation: nothing of generate   *)
(* runs after it; the next provider call belongs to a later input.           *)
C13_NoRetries ==
    /\ Cardinality(ProviderCalls) <= 1
    /\ (gen_result.some /\ ~gen_result.v.ok) =>
          /\ pc \notin {"gen_lookup", "gen_provider", "gen_insert"}
          /\ \A i \in ProviderCalls : \A j \in (i + 1)..Len(steps) :
                steps[j] \notin {"cache_hit", "cache_miss", "provider_call", "cache_insert"}
          /\ cache = <<>>
          /\ result = None

C13_Witness ==
    /\ mode = "interactive"
    /\ pc = "read"
    /\ gen_result.some /\ ~gen_result.v.ok
    /\ Cardinality(ProviderCalls) = 1
    /\ steps[Len(steps)] = "parse_command"

(* C14: constructing a client for a Local(endpoint) or Custom(endpoint)      *)
(* provider fails at once with a configuration error: no client, no cache    *)
(* and no provider call come of it.                                          *)
C14_LocalCustomFail ==
    (llm_config.some /\ llm_config.v.provider.kind \in {"Local", "Custom"}) =>
        /\ client = None
        /\ cache = <<>>
        /\ pc # "pnl_prompt"
        /\ \A i \in DOMAIN steps :
              steps[i] \notin {"build_prompt", "cache_hit", "cache_miss", "provider_call",
                               "empty_response_list", "cache_insert"}
        /\ HasStep("client_new") =>
              /\ result = None
              /\ failure = "client"

C14_Witness ==
    /\ llm_config.some
    /\ llm_config.v.provider = [kind |-> "Custom", endpoint |-> <<"e", "p">>]
    /\ llm_config.v.api_key.some
    /\ HasStep("client_new")
    /\ failure = "client"
    /\ pc = "caller_result"

(* The key LLMClient::new resolves: the configured one, else the provider's  *)
(* environment variable                                                      *)
ResolvedKey ==
    IF llm_config.v.api_key.some THEN llm_config.v.api_key
    ELSE env_var(cfg.env, IF llm_config.v.provider.kind = "OpenAI"
                          THEN StrOpenaiKeyVar ELSE StrAnthropicKeyVar)

(* C15: constructing an OpenAI or Anthropic client fails whenever the        *)
(* resolved API key is missing or empty; so no constructed client has        *)
(* is_available() false, and no provider call is made with an empty key.     *)
C15_MissingOrEmptyKeyFails ==
    /\ ( /\ llm_config.some
         /\ llm_config.v.provider.kind \in {"OpenAI", "Anthropic"}
         /\ HasStep("client_new")
         /\ ~ResolvedKey.some \/ ResolvedKey.v = <<>> )
       => client = None /\ failure = "client"
    /\ client.some => LLMClient_is_available(client.v)
    /\ HasStep("provider_call") => client.v.provider.api_key # <<>>

(* C16: a successful HTTP response with an empty choice list (OpenAI) or an  *)
(* empty content list (Anthropic) makes generate fail; no response with      *)
(* empty content is cached or returned as the translated command.            *)
C16_EmptyListIsFailure ==
    HasStep("empty_response_list") =>
        /\ gen_result.some /\ ~gen_result.v.ok
        /\ pc # "gen_insert"
        /\ ~HasStep("cache_insert")
        /\ \A i \in DOMAIN cache : cache[i].value.content # <<>>
        /\ result # Some(<<>>)
        /\ processed # Some(Translated(<<>>))

(* The lower-cased command holds the lower-cased pattern somewhere *)
HoldsFolded(command, pattern) ==
    \E i \in 1..(Len(command) + 1) : \E j \in (i - 1)..Len(command) :
        SubSeq(to_lowercase(command), i, j) = to_lowercase(pattern)

(* C17: is_dangerous_command is true exactly when the lower-cased command    *)
(* contains a lower-cased entry of dangerous_patterns; nothing else of the   *)
(* configuration matters. With the default patterns it is true for           *)
(* "sudo rm -rf /home" and "rm -rf /", false for "ls -la" and "mkdir test".  *)
C17_DangerousIffContains ==
    gate_out.some =>
        LET config  == gate_in.v.config
            command == gate_in.v.command
        IN  /\ gate_out.v.dangerous <=>
                  \E i \in DOMAIN config.dangerous_patterns :
                      HoldsFolded(command, config.dangerous_patterns[i])
            /\ config.dangerous_patterns = default_dangerous_patterns =>
                  /\ command \in {GateSudoRm, GateRmRoot} => gate_out.v.dangerous
                  /\ command \in {GateLs, GateMkdir} => ~gate_out.v.dangerous

C17_Witness ==
    /\ gate_out.some
    /\ gate_in.v.command = GateUpperRm
    /\ gate_in.v.config.dangerous_patterns = default_dangerous_patterns
    /\ ~gate_in.v.config.confirm_destructive
    /\ gate_out.v.dangerous

(* The lower-cased command begins with the lower-cased entry *)
BeginsFolded(command, entry) ==
    /\ Len(entry) <= Len(command)
    /\ \A i \in 1..Len(entry) :
          to_lowercase_char(command[i]) = to_lowercase_char(entry[i])

(* C18: requires_confirmation is false for every command and pattern list    *)
(* when confirm_destructive is off; when it is on, it is true exactly when    *)
(* the lower-cased command starts with a lower-cased entry of                 *)
(* require_confirmation. With the default policy it is true for "rm file.txt" *)
(* and "delete directory", false for "ls -la" and "mkdir test".               *)
C18_ConfirmationPolicy ==
    gate_out.some =>
        LET config  == gate_in.v.config
            command == gate_in.v.command
        IN  /\ ~config.confirm_destructive => ~gate_out.v.confirm
            /\ config.confirm_destructive =>
                  (gate_out.v.confirm <=>
                      \E i \in DOMAIN config.require_confirmation :
                          BeginsFolded(command, config.require_confirmation[i]))
            /\ (config.confirm_destructive
                  /\ config.require_confirmation = default_require_confirmation) =>
                  /\ command \in {GateRmFile, GateDelete} => gate_out.v.confirm
                  /\ command \in {GateLs, GateMkdir} => ~gate_out.v.confirm

C18_Witness ==
    /\ gate_out.some
    /\ gate_in.v.command = GateRmFile
    /\ gate_in.v.config.require_confirmation = default_require_confirmation
    /\ ~gate_in.v.config.confirm_destructive
    /\ ~gate_out.v.confirm
    /\ ~gate_out.v.dangerous

(* The turn's translation ended in an error or a refusal *)
TranslationError == failure \in {"config", "client", "provider", "blocked"}

(* C19: in interactive mode no error of the translation (configuration,      *)
(* client construction, provider or transport failure, unparsable response,  *)
(* safety refusal) ends the process or leaves the input loop: the loop gets  *)
(* back to reading the next line.                                            *)
C19_LoopSurvivesErrors ==
    /\ []((mode = "interactive" /\ TranslationError) => pc # "exited")
    /\ (mode = "interactive" /\ TranslationError /\ pc = "caller_result") ~> (pc = "read")

C19_Witness ==
    /\ mode = "interactive"
    /\ pc = "read"
    /\ gen_result = Some(Err("invalid_json"))
    /\ failure = "provider"
    /\ steps[Len(steps)] = "print_could_not_process"

(* The log line of each error path of process_natural_language *)
ErrorLogOf ==
    [f \in {"config", "client", "provider"} |->
        CASE f = "config"   -> "log_config_error"
          [] f = "client"   -> "log_client_error"
          [] f = "provider" -> "log_llm_error"]

(* C20: with verbose_mode on, every error path of the translation            *)
(* (to_llm_config, LLMClient::new, generate) writes its log line before the  *)
(* error becomes "no translation"; none returns None silently.               *)
C20_VerboseErrorsAreLogged ==
    (cfg.verbose_mode /\ failure \in DOMAIN ErrorLogOf) =>
        /\ result = None
        /\ \E i \in DOMAIN steps :
              /\ steps[i] = ErrorLogOf[failure]
              /\ \A j \in (i + 1)..Len(steps) :
                    steps[j] \in {"print_could_not_process", "parse_command"}

C20_Witness ==
    /\ cfg.verbose_mode
    /\ failure = "client"
    /\ pc = "caller_result"
    /\ steps[Len(steps)] = "log_client_error"

(* The text holds the word somewhere, letter case aside *)
FoldedHas(t, w) ==
    \E i \in 0..(Len(t) - Len(w)) :
        \A k \in 1..Len(w) : to_lowercase_char(t[i + k]) = to_lowercase_char(w[k])

(* Whitespace-separated tokens of a text: one per start of a run *)
TokenCount(t) ==
    Cardinality({i \in 1..Len(t) : t[i] \notin Whitespace
                                   /\ (i = 1 \/ t[i - 1] \in Whitespace)})

PaddedFunctionWords ==
    { <<" ", "a", " ">>, <<" ", "a", "n", " ">>, <<" ", "t", "h", "e", " ">>,
      <<" ", "t", "o", " ">>, <<" ", "a", "n", "d", " ">>, <<" ", "o", "r", " ">> }

(* The two-tier reference of the classifier *)
TwoTierReference(t) ==
    \/ \E k \in DOMAIN natural_language_indicators :
          FoldedHas(t, natural_language_indicators[k])
    \/ /\ TokenCount(t) > 3
       /\ \E w \in PaddedFunctionWords : FoldedHas(t, w)

(* C21: is_natural_language returns a boolean for every input and equals the *)
(* two-tier reference: a keyword of the fixed set in the lower-cased input,   *)
(* or more than 3 tokens and a padded function word in it. The empty input   *)
(* and "ls -la", "mkdir test", "cd /home" give false.                        *)
C21_ClassifierIsTwoTier ==
    (text_out.some /\ text_in.v.fn = "is_natural_language") =>
        /\ text_out.v \in BOOLEAN
        /\ text_out.v <=> TwoTierReference(text_in.v.input)
        /\ text_in.v.input \in {TextEmpty, LineLs, CmdMkdir, TextCd} => ~text_out.v

C21_Witness ==
    /\ text_out = Some(FALSE)
    /\ text_in.v.fn = "is_natural_language"
    /\ text_in.v.input = TextThreeThe

DefaultEndpoints ==
    [ k \in {"OpenAI", "Anthropic"} |->
        IF k = "OpenAI" THEN "https://api.openai.com/v1/chat/completions"
        ELSE "https://api.anthropic.com/v1/messages" ]

(* C22: when the configuration sets an endpoint override, the adapter of the *)
(* constructed client sends its requests there; the default URL of the       *)
(* provider is used only when there is no override.                          *)
C22_EndpointOverrideIsUsed ==
    client.some =>
        client.v.provider.endpoint =
            IF client.v.config.endpoint.some THEN client.v.config.endpoint.v
            ELSE DefaultEndpoints[client.v.provider.kind]

(* The label of each known OS id *)
KnownOsLabels ==
    [ o \in {"windows", "linux", "macos"} |->
        CASE o = "windows" -> "Windows PowerShell/Command Prompt"
          [] o = "linux"   -> "Linux bash/sh shell"
          [] o = "macos"   -> "macOS bash/zsh shell" ]

(* C23: build_prompt returns, for every request and OS id, in this order:    *)
(* the system prompt, the OS label (the mapped label of a known id,          *)
(* "Unknown OS" for any other), the literal user request, the safety rules   *)
(* joined with "\n- ", the output format and the final directive; the value  *)
(* is fixed by the two arguments and the template.                           *)
C23_PromptLayout ==
    (text_out.some /\ text_in.v.fn = "build_prompt") =>
        LET p  == text_out.v
            os == text_in.v.os
        IN  /\ [i \in DOMAIN p |-> p[i].section] =
                  << "system_prompt", "Target OS", "User Request", "Safety Rules",
                     "Output Format", "directive" >>
            /\ p[1].text = "default_system_prompt"
            /\ p[2].text = IF os \in DOMAIN KnownOsLabels THEN KnownOsLabels[os]
                           ELSE "Unknown OS"
            /\ os = "linux" => p[2].text = "Linux bash/sh shell"
            /\ p[3].text = text_in.v.user_input
            /\ p[4].text = << "Never suggest commands that could harm the system", "\n- ",
                              "Always use safe file operations", "\n- ",
                              "Warn about destructive operations", "\n- ",
                              "Prefer native cross-platform commands when possible", "\n- ",
                              "Only return the command, no explanations" >>
            /\ p[5].text = "default_output_format"
            /\ p[6].text = "Provide only the command:"

C23_Witness ==
    /\ text_out.some
    /\ text_in.v.fn = "build_prompt"
    /\ text_in.v.os = "freebsd"
    /\ text_in.v.user_input = LineCreate
    /\ text_out.v[2].text = "Unknown OS"

(* C24: when the safety gate refuses a translated command, nothing is run  *)
(* in that turn, whatever fallback_to_traditional says: neither the raw    *)
(* input line nor any other command reaches parse_command and execution.   *)
C24_RefusalExecutesNothing ==
    failure = "blocked" =>
        /\ pc # "parse"
        /\ ~HasStep("parse_command")
        /\ executed = None
        /\ parsed = None

(* What a finished turn decided: the argument vector handed to            *)
(* parse_command, or nothing                                               *)
TurnDecision == IF HasStep("parse_command") THEN Some(processed.v.argv) ELSE None

(* What the caller of mode m decides for the line, configuration, provider *)
(* outcome and answer of the turn at hand. A caller that does not try the  *)
(* translation parses the raw input; one whose translation stops at the    *)
(* flag check follows fallback_to_traditional; past the flag check         *)
(* enable_llm is on, both callers try the translation and run the same     *)
(* code on the same provider outcome and answer.                           *)
DecisionIn(m) ==
    IF ~caller_tries_translation(m, cfg, line)
    THEN Some(RawInputIn(m).argv)
    ELSE IF pnl_flag_check(cfg)
    THEN IF cfg.fallback_to_traditional THEN Some(RawInputIn(m).argv) ELSE None
    ELSE IF ~HasStep("parse_command") THEN None
    ELSE IF processed.v.src = "raw" THEN Some(RawInputIn(m).argv)
    ELSE Some(processed.v.argv)

DecisionInOwnMode ==
    (TurnEnded /\ HasStep("caller_classify")) => TurnDecision = DecisionIn(mode)

C26_DangerousIsConfirmed ==
    ( /\ cfg.confirm_destructive
      /\ ~cfg.block_destructive
      /\ cfg.dangerous_patterns = default_dangerous_patterns
      /\ cfg.require_confirmation = default_require_confirmation
      /\ result.some
      /\ is_dangerous_command(cfg, result.v) ) =>
        /\ requires_confirmation(cfg, result.v)
        /\ (pc = "parse" \/ HasStep("parse_command")) => HasStep("prompt_confirm")

MissStep(c) == cpc[c] = "lookup" /\ cpc'[c] = "provider"

(* The step of caller c whose provider call fails *)
FailedCallStep(c) == cpc[c] = "provider" /\ cpc'[c] = "idle"

(* C28: a generate whose provider call fails leaves the cache as it was:   *)
(* neither the missed lookup nor the failed call inserts, replaces,        *)
(* promotes or evicts an entry, and the key is still absent afterwards, so *)
(* the next generate for the request misses and calls the provider again.  *)
C28_FailedGenerateLeavesCache ==
    [][ \A c \in Callers :
          /\ MissStep(c) => cache' = cache /\ touch' = touch /\ origins' = origins
          /\ FailedCallStep(c) =>
                /\ cache' = cache /\ touch' = touch /\ origins' = origins
                /\ lru_get(cache', calculate_cache_key(client.v.config.model, creq[c].v)) = None
                /\ cresp'[c] = None ]_vars

C28_Witness ==
    /\ last_op.op = "get_miss"
    /\ cpc[1] = "idle"
    /\ Len(cache) = CacheCapacity
    /\ lru_get(cache, last_op.key) = None

(* The configuration that differs from the one at hand in enable_cache only *)
FlagFlipped == [cfg EXCEPT !.enable_cache = ~@]

KeyOf(c) == calculate_cache_key(client.v.config.model, creq[c].v)

(* C29: llm.enable_cache changes nothing. The client built from a          *)
(* configuration is the client built from the configuration with the flag  *)
(* flipped, and with either value every generate looks its key up, returns *)
(* on a hit exactly when the cache holds the key, and stores the response  *)
(* of a successful provider call.                                          *)
C29_EnableCacheIsInert ==
    /\ [](/\ to_llm_config(FlagFlipped) = to_llm_config(cfg)
          /\ client = Some(LLMClient_new(to_llm_config(FlagFlipped).v, FlagFlipped.env).v))
    /\ [][ \A c \in Callers :
             /\ cpc[c] = "lookup" /\ cpc'[c] # "lookup" =>
                   /\ (cpc'[c] = "idle") = lru_get(cache, KeyOf(c)).some
                   /\ cache' = lru_get_promote(cache, KeyOf(c))
             /\ cpc[c] = "insert" /\ cpc'[c] # "insert" =>
                   cache' = lru_put(cache, KeyOf(c), cresp[c].v) ]_vars

C29_Witness ==
    /\ ~cfg.enable_cache
    /\ last_op.op = "get_hit"
    /\ last_op.found.some
    /\ cpc[1] = "idle"

(* C30: the cache lock is never held across a provider call. A caller      *)
(* holds it only at its lookup or its insert, where its next step needs    *)
(* nothing but the lock it has and gives the lock back; a caller waiting   *)
(* on the provider holds no lock, so whenever the lock is free every       *)
(* waiting lookup and insert can take it and clear_cache and cache_size    *)
(* can run; a step is always possible for every caller that is inside      *)
(* generate or for the holder of the lock it waits for.                    *)
C30_LockNotHeldAcrossProviderCall ==
    /\ \A c \in Callers : cpc[c] \in {"provider", "idle"} => lock # Some(c)
    /\ lock.some =>
          /\ cpc[lock.v] \in {"lookup", "insert"}
          /\ ENABLED (generate_lookup(lock.v) \/ generate_insert(lock.v))
    /\ ((\E c \in Callers : cpc[c] = "provider") /\ lock = None) =>
          /\ \A d \in Callers : cpc[d] \in {"lookup", "insert"} => ENABLED lock_cache(d)
          /\ ENABLED clear_cache
          /\ ENABLED cache_size
    /\ \A c \in Callers :
          cpc[c] = "provider" => ENABLED (\E o \in GenOutcomes : generate_provider(c, o))

C30_Witness ==
    /\ cpc[1] = "provider"
    /\ cpc[2] = "insert"
    /\ lock = Some(2)
    /\ last_op.op = "get_miss"
    /\ last_op.caller = 1
====
